---- MODULE Spec2Model ----
(***************************************************************************)
(* focal_analyzer.py: directory validation, batch scan of image files,     *)
(* focal-length extraction from EXIF, aggregation, CSV/chart report and    *)
(* summary.                                                                *)
(*                                                                         *)
(* Focal lengths are Python floats with at most one decimal in every case  *)
(* the model produces; they are represented as integers counting tenths of *)
(* a millimetre (50.0 mm is 500).                                          *)
(***************************************************************************)
EXTENDS Integers, Sequences, FiniteSets

VARIABLES
    pc,            \* position of the main program
    input_dirs,    \* args.input_dirs: what each named directory is on disk
    out_dir,       \* what args.output_dir is on disk
    out_files,     \* the two artifact files in the output directory
    dir_idx,       \* index of the directory the current for loop is at
    walked,        \* the files os.walk has yielded so far, in order
    focal_counter, \* analyze_focal_lengths: focal_counter (insertion ordered)
    total_files,   \* analyze_focal_lengths: total_files
    missing_exif,  \* analyze_focal_lengths: missing_exif
    results,       \* the dict analyze_focal_lengths returned
    csv_path,      \* first component of generate_report's return value
    chart_path,    \* second component of generate_report's return value
    open_figures,  \* pyplot figures created and not yet closed
    log,           \* kinds of message printed so far
    top_focal,     \* the (focal, count) pair printed as most common
    exit_status,   \* process exit status, -1 while running
    exc,           \* the exception that ended the process, "none" otherwise
    x_pc,          \* a single get_focal_length call: position
    x_file,        \* a single get_focal_length call: the file at img_path
    x_result       \* a single get_focal_length call: the outcome

vars == <<pc, input_dirs, out_dir, out_files, dir_idx, walked, focal_counter,
          total_files, missing_exif, results, csv_path, chart_path,
          open_figures, log, top_focal, exit_status, exc,
          x_pc, x_file, x_result>>

pipeline_vars == <<pc, input_dirs, out_dir, out_files, dir_idx, walked,
                   focal_counter, total_files, missing_exif, results,
                   csv_path, chart_path, open_figures, log, top_focal,
                   exit_status, exc>>

extract_vars == <<x_pc, x_file, x_result>>

(***************************************************************************)
(* Bounds of the model.                                                    *)
(***************************************************************************)
MaxDirs == 2       \* most input directories on the command line
MaxFiles == 4      \* most files os.walk yields in one run
MaxEntries == 2    \* most EXIF entries of a file given to get_focal_length

(***************************************************************************)
(* EXIF values.  kind "int" is a plain number a, "tuple" the pair (a, b),  *)
(* "tuple1" the one-element tuple (a,), "str" a non-numeric string and     *)
(* "none" the value None.                                                  *)
(***************************************************************************)
IntVal(n) == [kind |-> "int", a |-> n, b |-> 0]
TupleVal(n, d) == [kind |-> "tuple", a |-> n, b |-> d]
Tuple1Val(n) == [kind |-> "tuple1", a |-> n, b |-> 0]
StrVal == [kind |-> "str", a |-> 0, b |-> 0]
NoneVal == [kind |-> "none", a |-> 0, b |-> 0]

\* Denominators are 0, 1, 4 and 10: n/4 and n/1 are exact in binary floating
\* point and n/10 rounds to itself, so round(x, 1) is decided by the exact
\* quotient (ties to even) for every value below.
Values ==
    { IntVal(24), IntVal(50), TupleVal(50, 1), TupleVal(241, 10),
      TupleVal(97, 4), TupleVal(99, 4), TupleVal(50, 0), Tuple1Val(50),
      StrVal, NoneVal }

Tags == {"FocalLength", "FocalLengthIn35mmFilm", "Make"}

Entry(t, v) == [tag |-> t, value |-> v]

\* The items of the dict img._getexif() returns, in iteration order: a dict
\* holds each tag once.  The empty sequence stands for None and for {}.
ExifsOfLen(n) ==
    { e \in [1..n -> [tag : Tags, value : Values]] :
        \A i, j \in 1..n : i # j => e[i].tag # e[j].tag }

Exifs(max) == UNION { ExifsOfLen(n) : n \in 0..max }

\* A file: the extension of its name, whether Image.open succeeds, its EXIF.
File(ext, rd, ex) == [ext |-> ext, readable |-> rd, exif |-> ex]

(***************************************************************************)
(* Outcomes of an expression or call: a float (tenths), None, or a raised  *)
(* exception.                                                              *)
(***************************************************************************)
Value(v) == [kind |-> "value", v |-> v, exc |-> "none"]
None == [kind |-> "none", v |-> 0, exc |-> "none"]
Raise(e) == [kind |-> "raise", v |-> 0, exc |-> e]

\* float(value)
Float(value) ==
    CASE value.kind = "int" -> Value(10 * value.a)
      [] value.kind = "str" -> Raise("ValueError")
      [] OTHER -> Raise("TypeError")

\* round(n / d, 1) for d > 0 and n >= 0, in tenths: ties go to the even digit
RoundTenths(n, d) ==
    LET q == (10 * n) \div d
        r == (10 * n) % d
    IN  IF 2 * r < d THEN q
        ELSE IF 2 * r > d THEN q + 1
        ELSE IF q % 2 = 0 THEN q ELSE q + 1

\* round(focal_length[0] / focal_length[1], 1) for a tuple focal_length
TupleRatio(value) ==
    CASE value.kind = "tuple1" -> Raise("IndexError")
      [] value.b = 0 -> Raise("ZeroDivisionError")
      [] OTHER -> Value(RoundTenths(value.a, value.b))

\* lines 32-36 and the fall through to line 39
AfterLoop(focal_length) ==
    IF focal_length.kind # "none"
    THEN IF focal_length.kind \in {"tuple", "tuple1"}
         THEN TupleRatio(focal_length)
         ELSE Float(focal_length)
    ELSE None

\* One iteration of the loop over exif.items(): either the function returns
\* (ret, with outcome out) or the loop goes on with focal_length.
LoopStepRawReturns(entry, focal_length) ==
    IF entry.tag = "FocalLength"
    THEN [ret |-> TRUE, out |-> AfterLoop(entry.value), focal_length |-> focal_length]
    ELSE IF entry.tag = "FocalLengthIn35mmFilm"
    THEN [ret |-> TRUE, out |-> Float(entry.value), focal_length |-> focal_length]
    ELSE [ret |-> FALSE, out |-> None, focal_length |-> focal_length]

LoopStep(entry, focal_length) ==
    IF entry.tag = "FocalLength"
    THEN [ret |-> FALSE, out |-> None, focal_length |-> entry.value]
    ELSE IF entry.tag = "FocalLengthIn35mmFilm"
    THEN [ret |-> TRUE, out |-> Float(entry.value), focal_length |-> focal_length]
    ELSE [ret |-> FALSE, out |-> None, focal_length |-> focal_length]

RECURSIVE ExifLoop(_, _, _)
ExifLoop(exif, i, focal_length) ==
    IF i > Len(exif) THEN AfterLoop(focal_length)
    ELSE LET s == LoopStep(exif[i], focal_length)
         IN  IF s.ret THEN s.out ELSE ExifLoop(exif, i + 1, s.focal_length)

\* The body of the try block
TryBody(file) ==
    IF ~file.readable THEN Raise("IOError")
    ELSE IF file.exif = <<>> THEN None
    ELSE ExifLoop(file.exif, 1, NoneVal)

\* The exception classes of the except clause
CaughtExceptions ==
    {"IOError", "AttributeError", "KeyError", "IndexError", "TypeError"}

GetFocalLength(file) ==
    LET r == TryBody(file)
    IN  IF r.kind = "raise" /\ r.exc \in CaughtExceptions THEN None ELSE r

\* The kind of message get_focal_length prints for a file
ExtractMessages(file) ==
    LET r == TryBody(file)
    IN  IF r.kind = "raise" /\ r.exc \in CaughtExceptions THEN {"extract_error"}
        ELSE IF file.readable /\ file.exif = <<>> THEN {"missing_exif_warning"}
        ELSE {}

(***************************************************************************)
(* A single call of get_focal_length on any file.                          *)
(***************************************************************************)
ExtractFiles ==
    {File(".jpg", FALSE, <<>>)} \cup
    {File(".jpg", TRUE, ex) : ex \in Exifs(MaxEntries)}

ExtractCall ==
    /\ x_pc = "call"
    /\ x_result' = GetFocalLength(x_file)
    /\ x_pc' = IF x_result'.kind = "raise" THEN "raised" ELSE "returned"
    /\ UNCHANGED x_file

(***************************************************************************)
(* analyze_focal_lengths                                                   *)
(***************************************************************************)
Extensions == {".jpg", ".JPG", ".jpeg", ".png", ".PNG", ".txt"}

\* file.lower(), on the extension
Lower(ext) ==
    CASE ext = ".JPG" -> ".jpg"
      [] ext = ".PNG" -> ".png"
      [] OTHER -> ext

\* file.lower().endswith(('.jpg', '.jpeg', '.png'))
IsImageName(ext) == Lower(ext) \in {".jpg", ".jpeg", ".png"}

\* The files a walk may yield: one per path through the scan.
ScanFiles ==
    { File(".txt", TRUE, <<>>),
      File(".png", FALSE, <<>>),
      File(".JPG", TRUE, <<>>),
      File(".jpg", TRUE, <<Entry("FocalLength", IntVal(24))>>),
      File(".jpg", TRUE, <<Entry("FocalLength", TupleVal(50, 1))>>),
      File(".jpg", TRUE, <<Entry("FocalLength", TupleVal(50, 0))>>),
      File(".PNG", TRUE, <<Entry("FocalLengthIn35mmFilm", IntVal(35))>>),
      File(".jpeg", TRUE, <<Entry("FocalLengthIn35mmFilm", IntVal(50))>>),
      File(".jpg", TRUE, <<Entry("FocalLengthIn35mmFilm", StrVal)>>) }

HasKey(counter, focal) == \E i \in 1..Len(counter) : counter[i].focal = focal

IndexOf(counter, focal) ==
    CHOOSE i \in 1..Len(counter) : counter[i].focal = focal

\* focal_counter[focal] = 1 (the count is overwritten, not incremented)
IncrementAssign(counter, focal) ==
    IF HasKey(counter, focal)
    THEN [counter EXCEPT ![IndexOf(counter, focal)].count = 1]
    ELSE Append(counter, [focal |-> focal, count |-> 1])

\* focal_counter[focal] += 1 on a defaultdict(int): a new key is appended
\* with count 1, a known key keeps its place
Increment(counter, focal) ==
    IF HasKey(counter, focal)
    THEN [counter EXCEPT ![IndexOf(counter, focal)].count = @ + 1]
    ELSE Append(counter, [focal |-> focal, count |-> 1])

\* total_files is counted before the extension filter
VisitFileCountsAll(locals, file) ==
    IF IsImageName(file.ext)
    THEN LET focal == GetFocalLength(file)
         IN  CASE focal.kind = "raise" ->
                    [locals EXCEPT !.total_files = @ + 1, !.raised = focal.exc]
               [] focal.kind = "value" ->
                    [locals EXCEPT !.total_files = @ + 1,
                                   !.focal_counter = Increment(@, focal.v)]
               [] OTHER ->
                    [locals EXCEPT !.total_files = @ + 1, !.missing_exif = @ + 1]
    ELSE [locals EXCEPT !.total_files = @ + 1]

\* The body of the innermost loop for one file; raised names the exception
\* that leaves get_focal_length, "none" if there is none
VisitFile(locals, file) ==
    IF IsImageName(file.ext)
    THEN LET focal == GetFocalLength(file)
         IN  CASE focal.kind = "raise" ->
                    [locals EXCEPT !.total_files = @ + 1, !.raised = focal.exc]
               [] focal.kind = "value" ->
                    [locals EXCEPT !.total_files = @ + 1,
                                   !.focal_counter = Increment(@, focal.v)]
               [] OTHER ->
                    [locals EXCEPT !.total_files = @ + 1, !.missing_exif = @ + 1]
    ELSE locals

\* The dict returned at lines 61-66
MakeResults(counter, total, missing) ==
    [total_images |-> total,
     images_with_focal |-> total - missing,
     focal_counts |-> counter,
     missing_exif |-> missing]

(***************************************************************************)
(* generate_report                                                         *)
(***************************************************************************)
CsvName == "focal_length_stats.csv"
ChartName == "focal_length_chart.png"
ArtifactNames == {CsvName, ChartName}

LabelThreshold == 30   \* if num_labels > 30
LabelTarget == 20      \* step = max(1, num_labels // 20)

\* A file of the output directory: absent, left by an earlier run (old) or
\* written by this run, with what was written
Absent == [state |-> "absent", header |-> <<>>, rows |-> <<>>, labels |-> <<>>]
Old == [state |-> "old", header |-> <<>>, rows |-> <<>>, labels |-> <<>>]
Written(h, r, l) == [state |-> "written", header |-> h, rows |-> r, labels |-> l]

\* if not results['focal_counts'], tested on another field of the results
EmptyCountsByTotal(res) == res.total_images = 0

\* if not results['focal_counts']
EmptyCounts(res) == res.focal_counts = <<>>

\* The list of (focal, count) tuples built from the dict's items
Items(counts) == [i \in 1..Len(counts) |-> <<counts[i].focal, counts[i].count>>]

RECURSIVE InsertRow(_, _)
InsertRow(sorted, row) ==
    IF sorted = <<>> THEN <<row>>
    ELSE IF row[1] < Head(sorted)[1] THEN <<row>> \o sorted
    ELSE <<Head(sorted)>> \o InsertRow(Tail(sorted), row)

\* The frame is left in the order of the dict's items
SortValuesOmitted(rows) == rows

\* .sort_values('Focal Length (mm)')
RECURSIVE SortValues(_)
SortValues(rows) ==
    IF rows = <<>> THEN <<>>
    ELSE InsertRow(SortValues(SubSeq(rows, 1, Len(rows) - 1)), rows[Len(rows)])

\* astype(str) of a float with one decimal: integer part and decimal digit
Str(focal) == <<focal \div 10, focal % 10>>

Max(a, b) == IF a >= b THEN a ELSE b

\* The labels given to plt.xticks: thinned when there are more than 30
XTickLabels(x_values) ==
    LET num_labels == Len(x_values)
        step == Max(1, num_labels \div LabelTarget)
    IN  IF num_labels > LabelThreshold
        THEN [i \in 1..num_labels |->
                 IF (i - 1) % step = 0 THEN x_values[i] ELSE <<>>]
        ELSE x_values

\* A chart write failure also drops the table path
ChartFailureReturnsNothing(csv) == <<"None", "None">>

\* return None, None after a failed to_csv
CsvFailureReturn == <<"None", "None">>

\* return csv_path, None after a failed savefig
ChartFailureReturn(csv) == <<csv, "None">>

\* generate_report(results, output_dir) where the output directory holds
\* files and figures pyplot figures are open; csv_ok and chart_ok tell
\* whether to_csv and savefig succeed when they are called.  A failed write
\* is taken to leave the file as it was.
GenerateReportResult(res, files, figures, csv_ok, chart_ok) ==
    IF EmptyCounts(res)
    THEN [ret |-> <<"None", "None">>, files |-> files, figures |-> figures,
          msgs |-> {"empty_warning"}]
    ELSE
      LET df == SortValues(Items(res.focal_counts))
          x_values == [i \in 1..Len(df) |-> Str(df[i][1])]
          bars == [i \in 1..Len(df) |-> <<x_values[i], df[i][2]>>]
          csv == Written(<<"Focal Length (mm)", "Count">>, df, <<>>)
          png == Written(<<"Focal Length (mm)", "Image Count">>, bars,
                         XTickLabels(x_values))
      IN  IF ~csv_ok
          THEN [ret |-> CsvFailureReturn, files |-> files, figures |-> figures,
                msgs |-> {"csv_error"}]
          ELSE IF ~chart_ok
          THEN [ret |-> ChartFailureReturn(CsvName),
                files |-> [files EXCEPT ![CsvName] = csv],
                figures |-> figures + 1,
                msgs |-> {"chart_error"}]
          ELSE [ret |-> <<CsvName, ChartName>>,
                files |-> [files EXCEPT ![CsvName] = csv, ![ChartName] = png],
                figures |-> (figures + 1) - 1,
                msgs |-> {}]

(***************************************************************************)
(* The summary: max(results['focal_counts'].items(), key=lambda x: x[1])   *)
(***************************************************************************)
\* max replaces its best item also on an equal key
BetterOrEqual(item, best) == item[2] >= best[2]

\* max keeps the first item met unless a later one has a greater key
Better(item, best) == item[2] > best[2]

RECURSIVE MaxFrom(_, _, _)
MaxFrom(items, i, best) ==
    IF i > Len(items) THEN best
    ELSE MaxFrom(items, i + 1, IF Better(items[i], best) THEN items[i] ELSE best)

TopFocal(counts) == MaxFrom(Items(counts), 2, Items(counts)[1])

(***************************************************************************)
(* The main program.                                                       *)
(***************************************************************************)
DirStates == [isdir : BOOLEAN, readable : BOOLEAN]

\* The directory is only tested for existence
DirOkNoAccess(d) == d.isdir

\* os.path.isdir(directory) and os.access(directory, os.R_OK)
DirOk(d) == d.isdir /\ d.readable

OutDirStates == {"writable", "readonly", "missing", "uncreatable"}

NoResults == MakeResults(<<>>, 0, 0)

InitPipeline ==
    /\ pc = "validate_inputs"
    /\ \E n \in 1..MaxDirs : input_dirs \in [1..n -> DirStates]
    /\ out_dir \in OutDirStates
    /\ out_files \in [ArtifactNames -> {Absent, Old}]
    /\ out_dir \in {"missing", "uncreatable"} =>
           \A f \in ArtifactNames : out_files[f] = Absent
    /\ dir_idx = 1
    /\ walked = <<>>
    /\ focal_counter = <<>>
    /\ total_files = 0
    /\ missing_exif = 0
    /\ results = NoResults
    /\ csv_path = "None"
    /\ chart_path = "None"
    /\ open_figures = 0
    /\ log = {}
    /\ top_focal = <<>>
    /\ exit_status = -1
    /\ exc = "none"

IdleExtract ==
    /\ x_pc = "idle"
    /\ x_file = File(".jpg", FALSE, <<>>)
    /\ x_result = None

Init == InitPipeline /\ IdleExtract

\* One iteration of the loop at lines 145-148
ValidateInputDir ==
    /\ pc = "validate_inputs"
    /\ IF ~DirOk(input_dirs[dir_idx])
       THEN /\ pc' = "exit"
            /\ exit_status' = 1
            /\ log' = log \cup {"input_dir_error"}
            /\ UNCHANGED dir_idx
       ELSE /\ pc' = IF dir_idx < Len(input_dirs)
                     THEN "validate_inputs" ELSE "validate_output"
            /\ dir_idx' = dir_idx + 1
            /\ UNCHANGED <<exit_status, log>>
    /\ UNCHANGED <<input_dirs, out_dir, out_files, walked, focal_counter,
                   total_files, missing_exif, results, csv_path, chart_path,
                   open_figures, top_focal, exc>>
    /\ UNCHANGED extract_vars

\* Lines 151-157: makedirs, the os.access test and the progress line; the
\* call of analyze_focal_lengths starts with its locals at their initial
\* values and the first directory
ValidateOutputDir ==
    /\ pc = "validate_output"
    /\ CASE out_dir = "uncreatable" ->
              /\ pc' = "traceback"
              /\ exc' = "PermissionError"
              /\ exit_status' = 1
              /\ UNCHANGED <<out_dir, log, dir_idx>>
         [] out_dir = "readonly" ->
              /\ pc' = "exit"
              /\ exit_status' = 1
              /\ log' = log \cup {"output_dir_error"}
              /\ UNCHANGED <<out_dir, exc, dir_idx>>
         [] OTHER ->
              /\ pc' = "scan"
              /\ out_dir' = "writable"
              /\ log' = log \cup {"progress"}
              /\ dir_idx' = 1
              /\ UNCHANGED <<exit_status, exc>>
    /\ UNCHANGED <<input_dirs, out_files, walked, focal_counter, total_files,
                   missing_exif, results, csv_path, chart_path, open_figures,
                   top_focal>>
    /\ UNCHANGED extract_vars

\* os.walk yields one more file of the current directory: lines 49-58
ScanFile ==
    /\ pc = "scan"
    /\ Len(walked) < MaxFiles
    /\ \E file \in ScanFiles :
         LET before == [focal_counter |-> focal_counter,
                        total_files |-> total_files,
                        missing_exif |-> missing_exif,
                        raised |-> "none"]
             after == VisitFile(before, file)
         IN  /\ walked' = Append(walked, file)
             /\ focal_counter' = after.focal_counter
             /\ total_files' = after.total_files
             /\ missing_exif' = after.missing_exif
             /\ log' = IF IsImageName(file.ext)
                       THEN log \cup ExtractMessages(file) ELSE log
             /\ IF after.raised # "none"
                THEN /\ pc' = "traceback"
                     /\ exc' = after.raised
                     /\ exit_status' = 1
                ELSE UNCHANGED <<pc, exc, exit_status>>
    /\ UNCHANGED <<input_dirs, out_dir, out_files, dir_idx, results, csv_path,
                   chart_path, open_figures, top_focal>>
    /\ UNCHANGED extract_vars

\* The walk of the current directory is exhausted: the next directory, or
\* after the last one the return at lines 61-66
FinishDir ==
    /\ pc = "scan"
    /\ IF dir_idx < Len(input_dirs)
       THEN /\ dir_idx' = dir_idx + 1
            /\ UNCHANGED <<pc, results>>
       ELSE /\ results' = MakeResults(focal_counter, total_files, missing_exif)
            /\ pc' = "report"
            /\ UNCHANGED dir_idx
    /\ UNCHANGED <<input_dirs, out_dir, out_files, walked, focal_counter,
                   total_files, missing_exif, csv_path, chart_path,
                   open_figures, log, top_focal, exit_status, exc>>
    /\ UNCHANGED extract_vars

\* Line 161
GenerateReport ==
    /\ pc = "report"
    /\ \E csv_ok \in BOOLEAN, chart_ok \in BOOLEAN :
         LET r == GenerateReportResult(results, out_files, open_figures,
                                       csv_ok, chart_ok)
         IN  /\ csv_path' = r.ret[1]
             /\ chart_path' = r.ret[2]
             /\ out_files' = r.files
             /\ open_figures' = r.figures
             /\ log' = log \cup r.msgs
    /\ pc' = "summary"
    /\ UNCHANGED <<input_dirs, out_dir, dir_idx, walked, focal_counter,
                   total_files, missing_exif, results, top_focal, exit_status,
                   exc>>
    /\ UNCHANGED extract_vars

\* Lines 164-177, then the interpreter exits with status 0
PrintSummary ==
    /\ pc = "summary"
    /\ top_focal' = IF results.focal_counts # <<>>
                    THEN TopFocal(results.focal_counts) ELSE <<>>
    /\ log' = log \cup {"summary"}
    /\ pc' = "done"
    /\ exit_status' = 0
    /\ UNCHANGED <<input_dirs, out_dir, out_files, dir_idx, walked,
                   focal_counter, total_files, missing_exif, results, csv_path,
                   chart_path, open_figures, exc>>
    /\ UNCHANGED extract_vars

Next ==
    \/ ValidateInputDir
    \/ ValidateOutputDir
    \/ ScanFile
    \/ FinishDir
    \/ GenerateReport
    \/ PrintSummary

Spec == Init /\ [][Next]_vars

(***************************************************************************)
(* get_focal_length alone, on every file of ExtractFiles.                  *)
(***************************************************************************)
InitExtract ==
    /\ x_pc = "call"
    /\ x_file \in ExtractFiles
    /\ x_result = None
    /\ pc = "idle"
    /\ input_dirs = <<>>
    /\ out_dir = "writable"
    /\ out_files = [f \in ArtifactNames |-> Absent]
    /\ dir_idx = 1
    /\ walked = <<>>
    /\ focal_counter = <<>>
    /\ total_files = 0
    /\ missing_exif = 0
    /\ results = NoResults
    /\ csv_path = "None"
    /\ chart_path = "None"
    /\ open_figures = 0
    /\ log = {}
    /\ top_focal = <<>>
    /\ exit_status = -1
    /\ exc = "none"

ExtractStep == ExtractCall /\ UNCHANGED pipeline_vars

SpecExtract == InitExtract /\ [][ExtractStep]_vars

(***************************************************************************)
(* Properties.                                                             *)
(***************************************************************************)
Returned == pc \in {"report", "summary", "done"}

Reported == pc \in {"summary", "done"}

RECURSIVE SumCounts(_)
SumCounts(counts) ==
    IF counts = <<>> THEN 0 ELSE Head(counts).count + SumCounts(Tail(counts))

\* The walked files whose name passes the extension filter
Images == {i \in 1..Len(walked) : IsImageName(walked[i].ext)}

\* The walked image files for which get_focal_length gives outcome o
ImagesYielding(o) == {i \in Images : GetFocalLength(walked[i]) = o}

Keys(counts) == {counts[i].focal : i \in 1..Len(counts)}

CountOf(counts, k) == counts[CHOOSE i \in 1..Len(counts) : counts[i].focal = k].count

\* C1: in the dict analyze_focal_lengths returns, the counts of focal_counts
\* sum to images_with_focal, images_with_focal + missing_exif is
\* total_images, and every count is at least 1.
C1_CountsAddUp ==
    Returned =>
        /\ SumCounts(results.focal_counts) = results.images_with_focal
        /\ results.images_with_focal + results.missing_exif = results.total_images
        /\ \A i \in 1..Len(results.focal_counts) : results.focal_counts[i].count >= 1

C1_Witness ==
    /\ Returned
    /\ Len(results.focal_counts) >= 2
    /\ \E i \in 1..Len(results.focal_counts) : results.focal_counts[i].count >= 2
    /\ results.missing_exif >= 1

\* C2: a failure while extracting the focal length of a file never leaves
\* analyze_focal_lengths: no exception ends the scan, and every walked image
\* whose extraction failed is counted in missing_exif.
C2_ExtractionFailuresAreCaught ==
    walked # <<>> =>
        /\ exc = "none"
        /\ pc # "traceback"
        /\ missing_exif =
             Cardinality({i \in Images : TryBody(walked[i]).kind # "value"})

HasTag(exif, t) == \E i \in 1..Len(exif) : exif[i].tag = t

TagValue(exif, t) == exif[CHOOSE i \in 1..Len(exif) : exif[i].tag = t].value

BothFields(file) ==
    /\ file.readable
    /\ HasTag(file.exif, "FocalLength")
    /\ HasTag(file.exif, "FocalLengthIn35mmFilm")

\* C3: when the EXIF holds both the 35mm-equivalent field and the raw focal
\* length, get_focal_length returns the 35mm-equivalent value whatever the raw
\* value is and whichever field comes first; when the 35mm field holds no
\* number the result is still never taken from the raw field.
C3_EquivalentFieldWins ==
    (x_pc # "call" /\ BothFields(x_file)) =>
        LET v35 == TagValue(x_file.exif, "FocalLengthIn35mmFilm")
        IN  IF v35.kind = "int"
            THEN x_pc = "returned" /\ x_result = Value(10 * v35.a)
            ELSE x_result.kind # "value"

C3_Witness ==
    /\ x_pc = "returned"
    /\ BothFields(x_file)
    /\ x_file.exif[1].tag = "FocalLength"
    /\ x_file.exif[1].value = TupleVal(241, 10)
    /\ TagValue(x_file.exif, "FocalLengthIn35mmFilm") = IntVal(50)
    /\ x_result = Value(500)

FileWritten(name) == out_files[name].state = "written"

C5_EmptyWritesNothing ==
    [][(pc = "report" /\ results.focal_counts = <<>>) =>
          /\ csv_path' = "None"
          /\ chart_path' = "None"
          /\ out_files' = out_files
          /\ open_figures' = open_figures]_vars

C5_Witness ==
    /\ Reported
    /\ results.focal_counts = <<>>
    /\ results.total_images >= 1
    /\ "empty_warning" \in log
    /\ out_files[CsvName] = Old
    /\ out_files[ChartName] = Absent

\* C6: the written table has one row per key of focal_counts, carrying that
\* key's count, in strictly ascending order of focal length.
C6_TableSortedOneRowPerKey ==
    FileWritten(CsvName) =>
        LET rows == out_files[CsvName].rows
            counts == results.focal_counts
        IN  /\ Len(rows) = Len(counts)
            /\ \A i \in 1..Len(counts) :
                  \E j \in 1..Len(rows) :
                      rows[j] = <<counts[i].focal, counts[i].count>>
            /\ \A j \in 1..(Len(rows) - 1) : rows[j][1] < rows[j + 1][1]

C6_Witness ==
    /\ FileWritten(CsvName)
    /\ Len(results.focal_counts) >= 3
    /\ results.focal_counts[1].focal > results.focal_counts[2].focal
    /\ out_files[CsvName].rows[1][1] = results.focal_counts[2].focal

\* C7: the returned counts depend only on which files were walked, not on the
\* order of the walk: total_images is the number of walked images,
\* missing_exif the number of them without a value, and each key's count the
\* number of them with that value (each a count over the walked files that no
\* reordering changes).
C7_CountsIndependentOfOrder ==
    Returned =>
        /\ results.total_images = Cardinality(Images)
        /\ results.missing_exif = Cardinality(ImagesYielding(None))
        /\ results.images_with_focal =
             Cardinality({i \in Images : GetFocalLength(walked[i]).kind = "value"})
        /\ Keys(results.focal_counts) =
             {GetFocalLength(walked[i]).v :
                 i \in {j \in Images : GetFocalLength(walked[j]).kind = "value"}}
        /\ \A k \in Keys(results.focal_counts) :
              CountOf(results.focal_counts, k) = Cardinality(ImagesYielding(Value(k)))
        /\ Len(results.focal_counts) = Cardinality(Keys(results.focal_counts))

C7_Witness ==
    /\ Returned
    /\ Len(walked) >= 3
    /\ \E i \in 1..Len(walked) : ~IsImageName(walked[i].ext)
    /\ Len(results.focal_counts) = 2
    /\ results.focal_counts[1].focal > results.focal_counts[2].focal

\* C8: the scan starts only after every input directory and the output
\* directory passed validation; a validation failure ends the process with
\* status 1 and nothing scanned.
C8_ValidationBeforeScan ==
    /\ (pc \in {"scan", "report", "summary", "done"} \/ walked # <<>>) =>
          /\ \A i \in 1..Len(input_dirs) :
                input_dirs[i].isdir /\ input_dirs[i].readable
          /\ out_dir = "writable"
    /\ pc = "exit" =>
          /\ exit_status = 1
          /\ walked = <<>>
          /\ total_files = 0
          /\ results = NoResults
    /\ (\E i \in 1..Len(input_dirs) :
            ~(input_dirs[i].isdir /\ input_dirs[i].readable)) =>
          exit_status # 0

C8_Witness ==
    /\ pc = "exit"
    /\ exit_status = 1
    /\ Len(input_dirs) = 2
    /\ input_dirs[1].isdir /\ input_dirs[1].readable
    /\ input_dirs[2].isdir /\ ~input_dirs[2].readable
    /\ walked = <<>>

\* The place in the walk where focal length k was first met
FirstSeen(k) ==
    CHOOSE i \in ImagesYielding(Value(k)) :
        \A j \in ImagesYielding(Value(k)) : i <= j

\* C9: the most common focal length printed is a key with the greatest count,
\* and among the keys with that count the one met first during the walk; for
\* {24.0: 3, 50.0: 7, 35.0: 2} it is 50.0 with count 7.
C9_TopFocalFirstOfMaxima ==
    (pc = "done" /\ results.focal_counts # <<>>) =>
        LET counts == results.focal_counts
        IN  /\ Len(top_focal) = 2
            /\ top_focal[1] \in Keys(counts)
            /\ top_focal[2] = CountOf(counts, top_focal[1])
            /\ \A i \in 1..Len(counts) : counts[i].count <= top_focal[2]
            /\ \A i \in 1..Len(counts) :
                  counts[i].count = top_focal[2] =>
                      FirstSeen(top_focal[1]) <= FirstSeen(counts[i].focal)
            /\ TopFocal(<<[focal |-> 240, count |-> 3], [focal |-> 500, count |-> 7],
                          [focal |-> 350, count |-> 2]>>) = <<500, 7>>

C9_Witness ==
    /\ pc = "done"
    /\ Len(results.focal_counts) >= 2
    /\ \E i \in 1..Len(results.focal_counts) :
          /\ results.focal_counts[i].focal < top_focal[1]
          /\ results.focal_counts[i].count = top_focal[2]

\* C10: when generate_report has returned, no figure it created is open.
C10_NoFigureLeftOpen == Reported => open_figures = 0

====
